---- MODULE Spec2Model ----
(***************************************************************************)
(* Sound localisation with HRTFs (Fig12A_Goodman_Brette_2010.py).          *)
(*                                                                         *)
(* The script is a straight-line pipeline: it builds a chain of filter     *)
(* banks, wires two neuron populations, runs the clock-driven simulation   *)
(* and decodes the spike counts.  The model follows it statement by        *)
(* statement.  Arrays are 0-indexed functions, as in the script.           *)
(*                                                                         *)
(* Three specifications share the variables:                               *)
(*   Spec       the construction of the filter chain and of the wiring     *)
(*              (lines 24-69);                                             *)
(*   SpecRun    the simulation, run(sound.duration) (line 71), from the    *)
(*              constructed network;                                       *)
(*   SpecDecode the decoding of the counts (lines 74-79), from every       *)
(*              bounded count vector.                                      *)
(***************************************************************************)
EXTENDS Integers, Sequences, FiniteSets, TLC

\* ---------------------------------------------------------------- bounds
\* hrtfset.num_indices, the number of locations of the loaded subject
\* (187 in the IRCAM set; line 28).
num_indices == 2
\* Number of cochlear centre frequencies (40 in the script; line 46).
cfN == 2
\* Number of distinct impulse responses the database may hold.
NumIR == 2

cfmin == 150
cfmax == 5000

Ears == {0, 1}              \* 0 = left, 1 = right (hrtf.fir[0], hrtf.fir[1])
Locations == 0 .. (num_indices - 1)
IR == 1 .. NumIR

\* Length of the run in clock steps (sound.duration / dt; line 71).
duration == 4
\* The refractory period of G in clock steps (5*ms / dt; line 59).
refractory == 3
\* Clock steps per membrane time constant ((1*ms) / dt; line 56).
TauSteps == 4
\* Potentials are integers; HalfUnit of them make 0.5.
HalfUnit == 2
\* Largest count of one unit that the decoding is checked on.
MaxCount == 2

VARIABLES
    pc,               \* the statement the script is about to execute
    hrtfset,          \* hrtfset.data: [ear, location] -> impulse response
    index,            \* the true location
    hrtf_fb, swapped_channels, hrtfset_fb, gfb, cochlea,   \* filter banks
    nG, ncd,          \* len(G), len(cd)
    C,                \* the connection matrix G -> cd
    i,                \* the loop variable of lines 65-67
    t,                \* clock steps done
    V_G, V_cd,        \* the membrane potentials
    next_allowed,     \* G._next_allowed_spiketime
    spikes_G, spikes_cd,        \* the spikes of the last step (LS[0])
    lastspike_G, lastspike_cd,  \* step of each unit's latest spike, -1: none
    prevspike_G,      \* step of each G unit's spike before that, -1: none
    xi_cd,            \* the noise sample cd drew in the last step
    emitted,          \* number of spikes each cd unit has emitted
    active,           \* the cd unit whose input path the run stimulates
    counter_count,    \* counter.count
    count,            \* the script's variable count
    index_guess

fbvars == << hrtfset, index, hrtf_fb, swapped_channels, hrtfset_fb, gfb,
             cochlea, nG, ncd, C, i >>
simvars == << t, V_G, V_cd, next_allowed, spikes_G, spikes_cd, lastspike_G,
              lastspike_cd, prevspike_G, xi_cd, emitted, active >>
decvars == << counter_count, count, index_guess >>
vars == << pc, fbvars, simvars, decvars >>

\* -------------------------------------------------------- filter banks
\* A filter bank is the array of its output channels; a channel is the
\* sequence of filters applied to the stimulus, in order of application.
nchannels(fb) == Cardinality(DOMAIN fb)

Arr(n) == 0 .. (n - 1)

\* Sound.whitenoise(500*ms): one channel, nothing applied yet.
sound == [k \in Arr(1) |-> << >>]

Fir(ear, loc, h) == [kind |-> "fir", ear |-> ear, loc |-> loc, h |-> h]
Gt(f) == [kind |-> "gammatone", cf |-> f]
Fn == [kind |-> "function"]

\* hrtf.filterbank(source): FIRFilterbank(source, hrtf.fir); a mono source
\* feeds both impulse responses.  Channel 0 is the left ear, 1 the right.
HRTF_filterbank(data, loc, source) ==
    [e \in Arr(2) |-> Append(source[0], Fir(e, loc, data[e, loc]))]

\* RestructureFilterbank(source, indexmapping=m): output k is input m[k].
RestructureFilterbank(source, indexmapping) ==
    [k \in Arr(Len(indexmapping)) |-> source[indexmapping[k + 1]]]

\* Repeat(source, n): each channel n times in a row, ABC -> AABBCC.
Repeat(source, n) ==
    [k \in Arr(nchannels(source) * n) |-> source[k \div n]]

HRTFSet_filterbank_left_only(data, source) ==
    [k \in Arr(num_indices) |-> Append(source[k], Fir(0, k, data[0, k]))]

\* hrtfset.filterbank(source): FIRFilterbank over hrtfset.data reshaped to
\* (2*num_indices, samples): the left filters of all locations, then the
\* right filters (LLLL...RRRR...), each applied to the input channel of the
\* same number.
HRTFSet_filterbank(data, source) ==
    [k \in Arr(2 * num_indices) |->
        Append(source[k],
               Fir(k \div num_indices, k % num_indices,
                   data[k \div num_indices, k % num_indices]))]

\* erbspace(cfmin, cfmax, cfN): cfN strictly increasing frequencies from
\* cfmin to cfmax (interpolated linearly here, on the ERB scale there).
erbspace(low, high, n) ==
    [f \in Arr(n) |-> IF n = 1 THEN low ELSE low + (f * (high - low)) \div (n - 1)]

cf == erbspace(cfmin, cfmax, cfN)

tile_by_repeat(a, reps) ==
    [k \in Arr(Cardinality(DOMAIN a) * reps) |-> a[k \div reps]]

\* numpy tile(a, reps): the whole array reps times, ABC -> ABCABC.
tile(a, reps) ==
    [k \in Arr(Cardinality(DOMAIN a) * reps) |-> a[k % Cardinality(DOMAIN a)]]

\* Gammatone(source, cfs): channel k filtered at centre frequency cfs[k].
Gammatone(source, cfs) ==
    [k \in Arr(nchannels(source)) |-> Append(source[k], Gt(cfs[k]))]

\* FunctionFilterbank(source, func): func applied to every channel.
FunctionFilterbank(source) ==
    [k \in Arr(nchannels(source)) |-> Append(source[k], Fn)]

NoSwap == << 0, 1 >>

\* indexmapping=[1, 0] of line 39.
SwapMapping == << 1, 0 >>

\* reset=0, threshold=1 (lines 59, 61): V is compared with threshold by >.
reset == 0
threshold == 2 * HalfUnit

FullWeight == 2 * HalfUnit

\* The synaptic weight 0.5 of lines 66-67.
weight == HalfUnit

\* ------------------------------------------------ construction, 24-69
None == << >>

Init ==
    /\ pc = "load"
    /\ hrtfset = None /\ index = 0
    /\ hrtf_fb = None /\ swapped_channels = None /\ hrtfset_fb = None
    /\ gfb = None /\ cochlea = None
    /\ nG = 0 /\ ncd = 0 /\ C = None /\ i = 0
    /\ t = 0 /\ V_G = None /\ V_cd = None /\ next_allowed = None
    /\ spikes_G = {} /\ spikes_cd = {}
    /\ lastspike_G = None /\ lastspike_cd = None /\ prevspike_G = None
    /\ xi_cd = None /\ emitted = None /\ active = 0
    /\ counter_count = None /\ count = None /\ index_guess = 0

\* hrtfset = hrtfdb.load_subject(subject)                    (lines 24-28)
LoadSubject ==
    /\ pc = "load"
    /\ \E data \in [Ears \X Locations -> IR] : hrtfset' = data
    /\ pc' = "index"
    /\ UNCHANGED << index, hrtf_fb, swapped_channels, hrtfset_fb, gfb, cochlea,
                    nG, ncd, C, i, simvars, decvars >>

\* index = randint(num_indices)                                 (line 30)
ChooseIndex ==
    /\ pc = "index"
    /\ \E j \in Locations : index' = j
    /\ pc' = "hrtf_fb"
    /\ UNCHANGED << hrtfset, hrtf_fb, swapped_channels, hrtfset_fb, gfb,
                    cochlea, nG, ncd, C, i, simvars, decvars >>

\* hrtf = hrtfset.hrtf[index]; hrtf_fb = hrtf.filterbank(sound) (32-36)
MakeHrtfFb ==
    /\ pc = "hrtf_fb"
    /\ hrtf_fb' = HRTF_filterbank(hrtfset, index, sound)
    /\ pc' = "swap"
    /\ UNCHANGED << hrtfset, index, swapped_channels, hrtfset_fb, gfb, cochlea,
                    nG, ncd, C, i, simvars, decvars >>

\* swapped_channels = RestructureFilterbank(hrtf_fb, [1, 0])    (line 39)
MakeSwapped ==
    /\ pc = "swap"
    /\ swapped_channels' = RestructureFilterbank(hrtf_fb, SwapMapping)
    /\ pc' = "hrtfset_fb"
    /\ UNCHANGED << hrtfset, index, hrtf_fb, hrtfset_fb, gfb, cochlea,
                    nG, ncd, C, i, simvars, decvars >>

\* hrtfset_fb = hrtfset.filterbank(Repeat(swapped_channels, num_indices))
MakeHrtfsetFb ==
    /\ pc = "hrtfset_fb"
    /\ hrtfset_fb' =
          HRTFSet_filterbank(hrtfset, Repeat(swapped_channels, num_indices))
    /\ pc' = "gfb"
    /\ UNCHANGED << hrtfset, index, hrtf_fb, swapped_channels, gfb, cochlea,
                    nG, ncd, C, i, simvars, decvars >>

\* gfb = Gammatone(Repeat(hrtfset_fb, cfN), tile(cf, hrtfset_fb.nchannels))
MakeGfb ==
    /\ pc = "gfb"
    /\ gfb' = Gammatone(Repeat(hrtfset_fb, cfN),
                        tile(cf, nchannels(hrtfset_fb)))
    /\ pc' = "cochlea"
    /\ UNCHANGED << hrtfset, index, hrtf_fb, swapped_channels, hrtfset_fb,
                    cochlea, nG, ncd, C, i, simvars, decvars >>

\* cochlea = FunctionFilterbank(gfb, ...)                       (line 53)
MakeCochlea ==
    /\ pc = "cochlea"
    /\ cochlea' = FunctionFilterbank(gfb)
    /\ pc' = "G"
    /\ UNCHANGED << hrtfset, index, hrtf_fb, swapped_channels, hrtfset_fb,
                    gfb, nG, ncd, C, i, simvars, decvars >>

\* G = FilterbankGroup(cochlea, 'I', eqs, ...): one neuron per channel, V = 0
MakeG ==
    /\ pc = "G"
    /\ nG' = nchannels(cochlea)
    /\ V_G' = [u \in Arr(nchannels(cochlea)) |-> 0]
    /\ next_allowed' = [u \in Arr(nchannels(cochlea)) |-> 0]
    /\ lastspike_G' = [u \in Arr(nchannels(cochlea)) |-> -1]
    /\ prevspike_G' = [u \in Arr(nchannels(cochlea)) |-> -1]
    /\ pc' = "cd"
    /\ UNCHANGED << hrtfset, index, hrtf_fb, swapped_channels, hrtfset_fb,
                    gfb, cochlea, ncd, C, i, t, V_cd, spikes_G, spikes_cd,
                    lastspike_cd, xi_cd, emitted, active, decvars >>

\* cd = NeuronGroup(num_indices*cfN, eqs, ...)                  (line 61)
MakeCd ==
    /\ pc = "cd"
    /\ ncd' = num_indices * cfN
    /\ V_cd' = [k \in Arr(num_indices * cfN) |-> 0]
    /\ lastspike_cd' = [k \in Arr(num_indices * cfN) |-> -1]
    /\ xi_cd' = [k \in Arr(num_indices * cfN) |-> 0]
    /\ emitted' = [k \in Arr(num_indices * cfN) |-> 0]
    /\ pc' = "C"
    /\ UNCHANGED << hrtfset, index, hrtf_fb, swapped_channels, hrtfset_fb,
                    gfb, cochlea, nG, C, i, t, V_G, next_allowed, spikes_G,
                    spikes_cd, lastspike_G, prevspike_G, active, decvars >>

\* C = Connection(G, cd, 'V'): no synapses yet                  (line 64)
MakeC ==
    /\ pc = "C"
    /\ C' = [s \in Arr(nG) \X Arr(ncd) |-> 0]
    /\ i' = 0
    /\ pc' = "loop"
    /\ UNCHANGED << hrtfset, index, hrtf_fb, swapped_channels, hrtfset_fb,
                    gfb, cochlea, nG, ncd, simvars, decvars >>

\* The row of G that line 67 connects to cd unit k.
LeftRowSameAsRight(k) == k
LeftRow(k) == k + num_indices * cfN

\* One iteration of the loop body, lines 66-67.
Connect(W, k) ==
    [W EXCEPT ![k, k] = weight, ![LeftRow(k), k] = weight]

\* for i in xrange(num_indices*cfN): ...                     (lines 65-67)
ConnectStep ==
    /\ pc = "loop"
    /\ i < num_indices * cfN
    /\ C' = Connect(C, i)
    /\ i' = i + 1
    /\ UNCHANGED << pc, hrtfset, index, hrtf_fb, swapped_channels, hrtfset_fb,
                    gfb, cochlea, nG, ncd, simvars, decvars >>

ConnectDone ==
    /\ pc = "loop"
    /\ i >= num_indices * cfN
    /\ pc' = "counter"
    /\ UNCHANGED << fbvars, simvars, decvars >>

\* counter = SpikeCounter(cd)                                   (line 69)
MakeCounter ==
    /\ pc = "counter"
    /\ counter_count' = [k \in Arr(ncd) |-> 0]
    /\ pc' = "run"
    /\ UNCHANGED << fbvars, simvars, count, index_guess >>

Next ==
    \/ LoadSubject \/ ChooseIndex \/ MakeHrtfFb \/ MakeSwapped
    \/ MakeHrtfsetFb \/ MakeGfb \/ MakeCochlea \/ MakeG \/ MakeCd \/ MakeC
    \/ ConnectStep \/ ConnectDone \/ MakeCounter

Spec == Init /\ [][Next]_vars

\* ------------------------------------------- run(sound.duration), line 71
\* eqs (lines 55-58), one Euler step of dV/dt = (I-V)/(1*ms) + noise: the
\* drift (I-V)*dt/(1*ms) and the noise sample x of the step.
StateUpdate(V, I, x) == V + ((I - V) \div TauSteps) + x

\* threshold=1: a unit crosses when V > threshold.
Crosses(V) == V > threshold

AlwaysAllowed(u, now) == TRUE

\* refractory=5*ms (G only, line 59): a crossing of unit u counts as a
\* spike only from G._next_allowed_spiketime[u] on.
Allowed(u, now) == next_allowed[u] <= now

RECURSIVE SumWeights(_, _, _)
SumWeights(W, S, k) ==
    IF S = {} THEN 0
    ELSE LET u == CHOOSE x \in S : TRUE
         IN  W[u, k] + SumWeights(W, S \ {u}, k)

\* C.do_propagate(): every spike of G of this step adds its weight to the
\* V of its targets.
Propagate(V, W, spikes) ==
    [k \in DOMAIN V |-> V[k] + SumWeights(W, spikes, k)]

\* reset=0: the units that spiked in this step are set to the reset value.
Reset(V, spikes) ==
    [k \in DOMAIN V |-> IF k \in spikes THEN reset ELSE V[k]]

\* Refractoriness(reset, period) of G: V is held at the reset value for
\* the units that spiked in the last `refractory` steps or in this one.
Refractoriness(V, last, now) ==
    [u \in DOMAIN V |->
        IF last[u] >= 0 /\ now - last[u] <= refractory THEN reset ELSE V[u]]

CountedFromG(sG, sC) == sG \cap Arr(ncd)

\* SpikeCounter(cd): the spikes the counter is fed are those of cd.
Counted(sG, sC) == sC

\* counter.propagate(spikes): count[spikes] += 1.
SpikeCounter_propagate(cnt, spikes) ==
    [k \in DOMAIN cnt |-> IF k \in spikes THEN cnt[k] + 1 ELSE cnt[k]]

\* The inputs of one step.  The cochlear drive I is 15*clip(x,0,Inf)^(1/3),
\* never negative; the noise sample is negative, zero or positive.
Drive == {0, 16 * threshold}
Noise == {0 - HalfUnit, 0, HalfUnit}
\* The noise samples of one step for << G unit active, G unit
\* active + num_indices*cfN, cd unit active >>: at most one is not zero.
NoiseSamples ==
    {x \in Noise \X Noise \X Noise :
        Cardinality({n \in 1 .. 3 : x[n] # 0}) <= 1}

\* One clock step of the network, in Brian's order: state update and
\* threshold of every group, propagation of the connections (and of the
\* counter), then the resets.  In one run the stimulus and the noise
\* differ from zero on one input path only: the G units active and
\* active + num_indices*cfN and the cd unit active (the first or the last
\* cd unit).
NetworkUpdate ==
    /\ pc = "run"
    /\ t < duration
    /\ \E Ia \in Drive, Ib \in Drive, x \in NoiseSamples :
        LET xa == x[1]
            xb == x[2]
            xk == x[3]
            I == [u \in Arr(nG) |->
                    IF u = active THEN Ia
                    ELSE IF u = active + ncd THEN Ib ELSE 0]
            xG == [u \in Arr(nG) |->
                    IF u = active THEN xa
                    ELSE IF u = active + ncd THEN xb ELSE 0]
            xC == [k \in Arr(ncd) |-> IF k = active THEN xk ELSE 0]
        IN
        \E VG1 \in {[u \in Arr(nG) |-> StateUpdate(V_G[u], I[u], xG[u])]},
           VC1 \in {[k \in Arr(ncd) |-> StateUpdate(V_cd[k], 0, xC[k])]} :
        \E sG \in {{u \in Arr(nG) : Crosses(VG1[u]) /\ Allowed(u, t)}},
           sC \in {{k \in Arr(ncd) : Crosses(VC1[k])}} :
        \E lastG \in {[u \in Arr(nG) |->
                          IF u \in sG THEN t ELSE lastspike_G[u]]} :
            /\ spikes_G' = sG
            /\ spikes_cd' = sC
            /\ next_allowed' = [u \in Arr(nG) |->
                  IF u \in sG THEN t + refractory ELSE next_allowed[u]]
            /\ lastspike_G' = lastG
            /\ prevspike_G' = [u \in Arr(nG) |->
                  IF u \in sG THEN lastspike_G[u] ELSE prevspike_G[u]]
            /\ lastspike_cd' = [k \in Arr(ncd) |->
                  IF k \in sC THEN t ELSE lastspike_cd[k]]
            /\ xi_cd' = xC
            /\ counter_count' =
                  SpikeCounter_propagate(counter_count, Counted(sG, sC))
            /\ emitted' = [k \in Arr(ncd) |->
                  IF k \in sC THEN emitted[k] + 1 ELSE emitted[k]]
            /\ V_G' = Refractoriness(Reset(VG1, sG), lastG, t)
            /\ V_cd' = Reset(Propagate(VC1, C, sG), sC)
    /\ t' = t + 1
    /\ UNCHANGED << pc, fbvars, active, count, index_guess >>

\* run() returns when the clock has done sound.duration.
RunDone ==
    /\ pc = "run"
    /\ t >= duration
    /\ pc' = "count"
    /\ UNCHANGED << fbvars, simvars, decvars >>

\* The network as lines 24-69 leave it.
RECURSIVE ConnectAll(_, _)
ConnectAll(W, n) == IF n = 0 THEN W ELSE Connect(ConnectAll(W, n - 1), n - 1)

Constructed(data, idx) ==
    /\ hrtfset = data /\ index = idx
    /\ hrtf_fb = HRTF_filterbank(data, idx, sound)
    /\ swapped_channels = RestructureFilterbank(hrtf_fb, SwapMapping)
    /\ hrtfset_fb =
          HRTFSet_filterbank(data, Repeat(swapped_channels, num_indices))
    /\ gfb = Gammatone(Repeat(hrtfset_fb, cfN), tile(cf, nchannels(hrtfset_fb)))
    /\ cochlea = FunctionFilterbank(gfb)
    /\ nG = nchannels(cochlea) /\ ncd = num_indices * cfN
    /\ C = ConnectAll([s \in Arr(nG) \X Arr(ncd) |-> 0], ncd)
    /\ i = ncd

\* One loaded subject: location j has the impulse responses j and j+1
\* (modulo NumIR) at its left and right ear.
SomeSubject == [s \in Ears \X Locations |-> ((s[1] + s[2]) % NumIR) + 1]

AtRest ==
    /\ t = 0
    /\ V_G = [u \in Arr(nG) |-> 0] /\ V_cd = [k \in Arr(ncd) |-> 0]
    /\ next_allowed = [u \in Arr(nG) |-> 0]
    /\ spikes_G = {} /\ spikes_cd = {}
    /\ lastspike_G = [u \in Arr(nG) |-> -1]
    /\ prevspike_G = [u \in Arr(nG) |-> -1]
    /\ lastspike_cd = [k \in Arr(ncd) |-> -1]
    /\ xi_cd = [k \in Arr(ncd) |-> 0]
    /\ emitted = [k \in Arr(ncd) |-> 0]

InitRun ==
    /\ pc = "run"
    /\ Constructed(SomeSubject, 0)
    /\ AtRest
    /\ active \in {0, ncd - 1}
    /\ counter_count = [k \in Arr(ncd) |-> 0]
    /\ count = None /\ index_guess = 0

NextRun == NetworkUpdate \/ RunDone

SpecRun == InitRun /\ [][NextRun]_vars

\* ------------------------------------------------ decoding, lines 74-79
FlatColumnMajor(r, c) == c * num_indices + r

\* The flat index that numpy's row-major reshape to (num_indices, cfN)
\* reads for row r, column c (line 75).
FlatIndex(r, c) == r * cfN + c

\* count.shape = (num_indices, cfN)
Reshape(a) ==
    [s \in Locations \X Arr(cfN) |-> a[FlatIndex(s[1], s[2])]]

RECURSIVE RowSum(_, _, _)
RowSum(a, r, n) == IF n = 0 THEN 0 ELSE RowSum(a, r, n - 1) + a[r, n - 1]

\* sum(count, axis=1)
SumAxis1(a) == [r \in Locations |-> RowSum(a, r, cfN)]

RECURSIVE Total(_, _)
Total(a, n) == IF n = 0 THEN 0 ELSE Total(a, n - 1) + a[n - 1]

amax_as_total(a) == Total(a, Cardinality(DOMAIN a))

\* amax(count)
amax(a) == CHOOSE m \in {a[j] : j \in DOMAIN a} : \A j \in DOMAIN a : a[j] <= m

RECURSIVE Gcd(_, _)
Gcd(x, y) == IF y = 0 THEN x ELSE Gcd(y, x % y)

\* A float is a fraction in lowest terms; 0/0 is NaN and x/0 is Inf.
NaN == [num |-> 0, den |-> 0]
Inf == [num |-> 1, den |-> 0]
IsNaN(x) == x = NaN

DivideGuarded(x, m) ==
    IF m = 0 THEN [num |-> 0, den |-> 1]
    ELSE [num |-> x \div Gcd(x, m), den |-> m \div Gcd(x, m)]

\* float(x) / m for integers x >= 0, m >= 0, as numpy divides: no check
\* of the divisor.
Divide(x, m) ==
    IF m = 0 THEN (IF x = 0 THEN NaN ELSE Inf)
    ELSE [num |-> x \div Gcd(x, m), den |-> m \div Gcd(x, m)]

\* x < y on floats; false when either is NaN.
LessF(x, y) ==
    /\ ~IsNaN(x) /\ ~IsNaN(y)
    /\ IF y.den = 0 THEN x.den # 0
       ELSE x.den # 0 /\ x.num * y.den < y.num * x.den

\* array(count, dtype=float) / amax(count)
Normalize(a) == [j \in DOMAIN a |-> Divide(a[j], amax(a))]

Smallest(S) == CHOOSE j \in S : \A l \in S : j <= l

\* argmax(count): the first index of the maximum; a NaN counts as the
\* maximum.
argmax(a) ==
    IF \E j \in DOMAIN a : IsNaN(a[j])
    THEN Smallest({j \in DOMAIN a : IsNaN(a[j])})
    ELSE Smallest({j \in DOMAIN a : \A l \in DOMAIN a : ~LessF(a[j], a[l])})

\* count = counter.count                                        (line 74)
GetCount ==
    /\ pc = "count"
    /\ count' = counter_count
    /\ pc' = "shape"
    /\ UNCHANGED << fbvars, simvars, counter_count, index_guess >>

\* count.shape = (num_indices, cfN): in place, counter.count is the same
\* array                                                        (line 75)
SetShape ==
    /\ pc = "shape"
    /\ count' = Reshape(count)
    /\ counter_count' = Reshape(count)
    /\ pc' = "sum"
    /\ UNCHANGED << fbvars, simvars, index_guess >>

\* count = sum(count, axis=1)                                   (line 76)
SumOverFrequency ==
    /\ pc = "sum"
    /\ count' = SumAxis1(count)
    /\ pc' = "normalize"
    /\ UNCHANGED << fbvars, simvars, counter_count, index_guess >>

\* count = array(count, dtype=float)/amax(count)                (line 77)
NormalizeCount ==
    /\ pc = "normalize"
    /\ count' = Normalize(count)
    /\ pc' = "argmax"
    /\ UNCHANGED << fbvars, simvars, counter_count, index_guess >>

\* index_guess = argmax(count)                                  (line 79)
Guess ==
    /\ pc = "argmax"
    /\ index_guess' = argmax(count)
    /\ pc' = "plot"
    /\ UNCHANGED << fbvars, simvars, counter_count, count >>

\* scatter(...), plot(...), show()                          (lines 81-90)
Plot ==
    /\ pc = "plot"
    /\ pc' = "done"
    /\ UNCHANGED << fbvars, simvars, decvars >>

\* The count vectors the decoding is checked on: every unit counted at
\* most MaxCount spikes and at most num_indices + 1 units counted any.
CountVectors ==
    {c \in [Arr(num_indices * cfN) -> 0 .. MaxCount] :
        Cardinality({k \in DOMAIN c : c[k] # 0}) <= num_indices + 1}

\* The state run() leaves: the clock at sound.duration, every cd unit
\* with the number of spikes it emitted in its counter.
InitDecode ==
    /\ pc = "count"
    /\ Constructed(SomeSubject, 0)
    /\ t = duration
    /\ V_G = [u \in Arr(nG) |-> 0] /\ V_cd = [k \in Arr(ncd) |-> 0]
    /\ next_allowed = [u \in Arr(nG) |-> 0]
    /\ spikes_G = {} /\ spikes_cd = {}
    /\ lastspike_G = [u \in Arr(nG) |-> -1]
    /\ prevspike_G = [u \in Arr(nG) |-> -1]
    /\ xi_cd = [k \in Arr(ncd) |-> 0]
    /\ active = 0
    /\ emitted \in CountVectors
    /\ lastspike_cd = [k \in Arr(ncd) |-> IF emitted[k] > 0 THEN 0 ELSE -1]
    /\ counter_count = emitted
    /\ count = None /\ index_guess = 0

NextDecode ==
    GetCount \/ SetShape \/ SumOverFrequency \/ NormalizeCount \/ Guess \/ Plot

SpecDecode == InitDecode /\ [][NextDecode]_vars

\* -------------------------------------------- reading the filter chain
\* A channel of cochlea is << true-location filter, set filter,
\* gammatone, function >>.
SignalEar(ch) == ch[1].ear      \* the ear whose signal the channel carries
SetEar(ch) == ch[2].ear         \* the ear of the HRTF-set filter applied
SetLoc(ch) == ch[2].loc         \* the location of the HRTF-set filter
CentreFreq(ch) == ch[3].cf

\* What a filter does to a signal: its coefficients, not where it is stored.
Coef(x) ==
    IF x.kind = "fir" THEN << "fir", x.h >>
    ELSE IF x.kind = "gammatone" THEN << "gammatone", x.cf >>
    ELSE << "function" >>

\* The composite filter of a channel as a commutative, associative product:
\* the multiset of the filters applied.
Composite(ch) ==
    LET cs == {Coef(ch[n]) : n \in DOMAIN ch}
    IN  [c \in cs |-> Cardinality({n \in DOMAIN ch : Coef(ch[n]) = c})]

\* The presynaptic units of cd unit k.
Pre(k) == {u \in Arr(nG) : C[u, k] # 0}

\* The HRTF pair stored for location j.
Pair(j) == << hrtfset[0, j], hrtfset[1, j] >>

Built(labels) == pc \in labels
AfterHrtfsetFb == {"gfb", "cochlea", "G", "cd", "C", "loop", "counter", "run"}
AfterCochlea == {"G", "cd", "C", "loop", "counter", "run"}
AfterLoop == {"counter", "run"}

\* ------------------------------------------------------------- claims
\* C2: after the connection loop every coincidence detector i has exactly
\* two presynaptic units in G, i and i + num_indices*cfN, each with weight
\* 0.5 (half the threshold); unit i carries the right-ear signal, unit
\* i + num_indices*cfN the left-ear signal, and the two went through the
\* HRTF pair of one location and the gammatone of one centre frequency.
C2_Wiring ==
    Built(AfterLoop) =>
        /\ nG = 2 * ncd
        /\ \A k \in Arr(ncd) :
              /\ Pre(k) = {k, k + num_indices * cfN}
              /\ Cardinality(Pre(k)) = 2
              /\ \A u \in Pre(k) : 2 * C[u, k] = threshold
              /\ SignalEar(cochlea[k]) = 1
              /\ SignalEar(cochlea[k + num_indices * cfN]) = 0
              /\ SetLoc(cochlea[k]) = SetLoc(cochlea[k + num_indices * cfN])
              /\ {SetEar(cochlea[u]) : u \in Pre(k)} = Ears
              /\ CentreFreq(cochlea[k])
                    = CentreFreq(cochlea[k + num_indices * cfN])

C2_Witness ==
    /\ pc = "counter"
    /\ \E k \in Arr(ncd) : k > 0 /\ Cardinality(Pre(k)) = 2

\* C4 as claimed: the HRTF-set filter bank has num_indices output channels.
C4_AsClaimed ==
    Built(AfterHrtfsetFb) => nchannels(hrtfset_fb) = num_indices

\* C4 as amended: the HRTF-set filter bank has 2*num_indices output
\* channels, for every location one made with its left filter and one
\* made with its right filter.
C4_TwoChannelsPerLocation ==
    Built(AfterHrtfsetFb) =>
        /\ nchannels(hrtfset_fb) = 2 * num_indices
        /\ \A j \in Locations : \A e \in Ears :
              Cardinality({k \in DOMAIN hrtfset_fb :
                  SetLoc(hrtfset_fb[k]) = j /\ SetEar(hrtfset_fb[k]) = e}) = 1

C4_Witness ==
    pc = "gfb" /\ nchannels(hrtfset_fb) = 2 * num_indices

\* The two inputs of the coincidence detector of location j, frequency f.
RightInput(j, f) == cochlea[FlatIndex(j, f)]
LeftInput(j, f) == cochlea[FlatIndex(j, f) + num_indices * cfN]

Matched(j, f) == Composite(RightInput(j, f)) = Composite(LeftInput(j, f))

\* C8 as claimed: at the true location the two inputs carry the same
\* composite filter, and at a location j # index they differ unless j has
\* the HRTF pair of index.
C8_AsClaimed ==
    Built(AfterCochlea) =>
        \A f \in Arr(cfN) :
            /\ Matched(index, f)
            /\ \A j \in Locations \ {index} :
                  Pair(j) # Pair(index) => ~Matched(j, f)

\* C8 as amended: at the true location the two inputs carry the same
\* composite filter; at a location j # index they carry the same composite
\* filter exactly when j has the HRTF pair of index, or when both j and
\* index have a left filter equal to their right filter.
C8_MatchedFilters ==
    Built(AfterCochlea) =>
        \A f \in Arr(cfN) :
            /\ Matched(index, f)
            /\ \A j \in Locations \ {index} :
                  Matched(j, f) <=>
                      \/ Pair(j) = Pair(index)
                      \/ /\ hrtfset[0, j] = hrtfset[1, j]
                         /\ hrtfset[0, index] = hrtfset[1, index]

C8_Witness ==
    /\ pc = "G"
    /\ hrtfset[0, index] # hrtfset[1, index]
    /\ \E j \in Locations \ {index} : Pair(j) # Pair(index)
    /\ \A f \in Arr(cfN) : Matched(index, f)

\* C9: the row r and column c that the reshape to (num_indices, cfN)
\* gives the count of a coincidence detector are the HRTF location and the
\* centre frequency of both units wired to it, so row j collects exactly
\* the cfN detectors fed through the HRTF pair of location j.
C9_IndexConsistency ==
    Built(AfterLoop) =>
        /\ \A r \in Locations : \A c \in Arr(cfN) :
              \A u \in Pre(FlatIndex(r, c)) :
                  /\ SetLoc(cochlea[u]) = r
                  /\ CentreFreq(cochlea[u]) = cf[c]
        /\ \A j \in Locations :
              {k \in Arr(ncd) : \E u \in Pre(k) : SetLoc(cochlea[u]) = j}
                  = {FlatIndex(j, c) : c \in Arr(cfN)}

C9_Witness ==
    /\ pc = "run"
    /\ \E r \in Locations : \E c \in Arr(cfN) :
          r > 0 /\ c > 0 /\ Pre(FlatIndex(r, c)) # {}


\* The number of spikes that reached cd unit k in the last step.
Arrived(k) == Cardinality(Pre(k) \cap spikes_G)

Running == pc = "run" /\ pc' = "run" /\ t' = t + 1

\* Every unit that spiked in the last step sits at the reset value.
ResetOnThreshold ==
    pc = "run" =>
        /\ \A u \in spikes_G : V_G[u] = reset
        /\ \A k \in spikes_cd : V_cd[k] = reset

\* A unit of G that spikes had its previous spike at least the refractory
\* period ago.
RefractoryG ==
    Running => \A u \in spikes_G' :
        lastspike_G[u] >= 0 => t - lastspike_G[u] >= refractory

RefractoryCd ==
    Running => \A k \in spikes_cd' :
        lastspike_cd[k] >= 0 => t - lastspike_cd[k] >= refractory

\* C5 as claimed: both populations are reset on threshold and no unit of
\* either spikes again before the refractory period has elapsed.
C5_AsClaimed ==
    [][RefractoryG /\ RefractoryCd]_vars

\* C5 as amended: both populations are reset to 0 on threshold; a unit of
\* G emits no further spike until the refractory period has elapsed; cd
\* has no refractory period.
C5_ResetAndRefractoryG ==
    []ResetOnThreshold /\ [][RefractoryG]_vars

C5_Witness ==
    /\ pc = "run"
    /\ \E u \in spikes_G :
          prevspike_G[u] >= 0 /\ lastspike_G[u] - prevspike_G[u] = refractory
    /\ \E k \in Arr(ncd) : emitted[k] > 0 /\ V_cd[k] = reset

\* C7: every cd unit has a counter that starts at 0, grows by exactly 1
\* in each step in which the unit spikes and is otherwise unchanged, spikes
\* of G leave it alone, and when the run ends counter k is the number of
\* spikes cd unit k emitted.
C7_SpikeCounting ==
    /\ [](pc = "run" /\ t = 0 => \A k \in Arr(ncd) : counter_count[k] = 0)
    /\ [][Running => \A k \in Arr(ncd) :
            counter_count'[k] =
                counter_count[k] + (IF k \in spikes_cd' THEN 1 ELSE 0)]_vars
    /\ [](pc = "count" => \A k \in Arr(ncd) : counter_count[k] = emitted[k])

C7_Witness ==
    /\ pc = "count"
    /\ \E k \in Arr(ncd) : counter_count[k] = 2
    /\ \E u \in Arr(nG) : lastspike_G[u] >= 0

\* cd unit k was at the reset value when the spikes of the last step
\* reached it, and did not spike in that step.
AtResetWhenReached(k) ==
    k \notin spikes_cd /\ V_cd[k] = reset + Arrived(k) * weight

\* C10 as claimed: noise aside, a cd unit at the reset value does not fire
\* on one input spike and fires on two input spikes of the same step.
C10_AsClaimed ==
    [][Running => \A k \in Arr(ncd) :
          AtResetWhenReached(k) /\ xi_cd'[k] = 0 =>
              /\ Arrived(k) = 1 => k \notin spikes_cd'
              /\ Arrived(k) = 2 => k \in spikes_cd']_vars

\* C10 as amended: noise aside, a cd unit at the reset value does not fire
\* on one input spike, and two input spikes of the same step lift it to
\* the threshold exactly, which it must exceed after one step of leak: it
\* does not fire without noise either, and fires in the next step when
\* that step's noise sample is the positive one.
C10_CoincidenceNeedsNoise ==
    [][Running => \A k \in Arr(ncd) :
          AtResetWhenReached(k) =>
              /\ Arrived(k) = 1 /\ xi_cd'[k] = 0 => k \notin spikes_cd'
              /\ Arrived(k) = 2 =>
                    /\ V_cd[k] = threshold
                    /\ xi_cd'[k] <= 0 => k \notin spikes_cd'
                    /\ xi_cd'[k] = HalfUnit => k \in spikes_cd']_vars

C10_Witness ==
    /\ pc = "run"
    /\ \E k \in spikes_cd :
          /\ lastspike_cd[k] = 1
          /\ xi_cd[k] = HalfUnit
          /\ \A u \in Pre(k) : lastspike_G[u] = 0

\* The summed spike count of location j: the spikes emitted by the cfN
\* units j*cfN .. j*cfN + cfN - 1.
RECURSIVE Emitted(_, _)
Emitted(j, n) ==
    IF n = 0 THEN 0 ELSE Emitted(j, n - 1) + emitted[j * cfN + (n - 1)]

LocationSum(j) == Emitted(j, cfN)

SomeSpike == \E k \in Arr(ncd) : emitted[k] # 0
Guessed == pc \in {"plot", "done"}
Normalized == pc \in {"argmax", "plot", "done"}

\* C1: when some count is non-zero, index_guess is the arg-max of the
\* per-location sums of the counts reshaped row-major to
\* (num_indices, cfN): its sum is at least every other location's and it
\* is the smallest index with that sum.
C1_Decoding ==
    Guessed /\ SomeSpike =>
        /\ index_guess \in Locations
        /\ \A j \in Locations : LocationSum(j) <= LocationSum(index_guess)
        /\ \A j \in Locations :
              LocationSum(j) = LocationSum(index_guess) => index_guess <= j

C1_Witness ==
    /\ pc = "done"
    /\ LocationSum(index_guess) > 0
    /\ \E j \in Locations :
          j > index_guess /\ LocationSum(j) = LocationSum(index_guess)
    /\ emitted[index_guess * cfN] = 0

\* C3: when some spike was counted, every normalized score lies in
\* [0, 1], the score of index_guess is exactly 1, and the scores order the
\* locations as their summed counts do.
C3_Normalization ==
    /\ Normalized /\ SomeSpike =>
          /\ \A j \in Locations :
                /\ count[j].den > 0
                /\ 0 <= count[j].num /\ count[j].num <= count[j].den
          /\ \A j \in Locations : \A l \in Locations :
                /\ LessF(count[j], count[l]) <=> LocationSum(j) < LocationSum(l)
                /\ count[j] = count[l] <=> LocationSum(j) = LocationSum(l)
    /\ Guessed /\ SomeSpike => count[index_guess] = [num |-> 1, den |-> 1]

C3_Witness ==
    /\ pc = "done"
    /\ \E j \in Locations : \E l \in Locations :
          /\ 0 < LocationSum(j) /\ LocationSum(j) < LocationSum(l)
          /\ LessF(count[j], count[l])
          /\ count[l] = [num |-> 1, den |-> 1]

\* C6: when no cd unit spiked, the division by the zero maximum leaves
\* every score NaN, and nothing replaces the NaN scores or stops the
\* script: an estimate is still chosen and plotted.
C6_DegenerateInput ==
    ~SomeSpike =>
        /\ Normalized => \A j \in Locations : IsNaN(count[j])
        /\ pc = "normalize" => amax(count) = 0 /\ ENABLED NormalizeCount
        /\ pc = "argmax" => ENABLED Guess
        /\ pc = "plot" => index_guess = 0 /\ ENABLED Plot

C6_Witness ==
    /\ pc = "done"
    /\ ~SomeSpike
    /\ \A j \in Locations : IsNaN(count[j])

====
